---- MODULE Spec2Model ----
(***************************************************************************)
(* Booking flow of the availability checker: bookAppointment,              *)
(* cancelAppointment, updateAppointment and updateAvailability run as      *)
(* coroutines over three Prisma tables.  Every `await` on the database is  *)
(* one atomic step; between two awaits of one request the other requests   *)
(* may run.  A database statement either executes or raises.               *)
(***************************************************************************)
EXTENDS Integers, Sequences, FiniteSets, TLC

None == 0

\* ------------------------------------------------------------------ bounds
\* Calls started in one behaviour when requests interleave (Spec).
MaxCalls == 2
\* Calls started in one behaviour when requests run one at a time (SeqSpec).
MaxSeqCalls == 2

\* Requests the server may have in flight at once.
Requests == {"r1", "r2"}
UserIds == {1}
\* str(e) of the exception a failing database statement raises; the insert of
\* an Appointment, whose error text bookAppointment hands on, has two
QueryErrors == {"connection closed"}
CreateErrors == {"connection closed", "foreign key constraint failed"}
\* the newScheduledTime values a caller passes to updateAppointment
NewScheduledTimes == {None, 2}
\* the newStatus values a caller passes to updateAppointment while other
\* requests run: PENDING is the status a new appointment has already
NewStatuses == {"CONFIRMED", "COMPLETED", "CANCELLED"}
\* the (professionalId, datetime) pairs callers name, datetimes as instants:
\* two times of one professional, and one time shared by two professionals
Slots == {<<2, 1>>, <<2, 2>>, <<3, 1>>}


VARIABLES
    Availability,   \* table: rows [id, professionalId, datetime, isAvailable]
    Appointment,    \* table: rows [id, userId, professionalId, scheduledTime, status]
    Notification,   \* table: rows [id, userId, message]
    nextId,         \* the autoincrement counter of each table
    User,           \* table: rows [id]
    UserProfile,    \* table: rows [id, userId]
    ProfessionalProfile,    \* table: rows [id, profileId]
    pc,             \* where each request stands in its handler
    frame,          \* the local variables of each request's handler
    last,           \* the call that returned in the step just taken, if one did
    recent,         \* in short, the call that returned most recently
    calls           \* calls started so far

vars == <<Availability, Appointment, Notification, nextId, User, UserProfile,
          ProfessionalProfile, pc, frame, last, recent, calls>>
people == <<User, UserProfile, ProfessionalProfile>>
db == <<Availability, Appointment, Notification, nextId, people>>

\* ------------------------------------------------------------- the schema
AppointmentStatus == {"PENDING", "CONFIRMED", "CANCELLED", "COMPLETED"}
\* status of a row created without one
DefaultStatus == "PENDING"

NoAppointment ==
    [id |-> None, userId |-> None, professionalId |-> None,
     scheduledTime |-> None, status |-> ""]

Snapshot ==
    [Availability |-> Availability, Appointment |-> Appointment,
     Notification |-> Notification, User |-> User,
     ProfessionalProfile |-> ProfessionalProfile]

EmptySnapshot ==
    [Availability |-> {}, Appointment |-> {}, Notification |-> {}, User |-> {},
     ProfessionalProfile |-> {}]

\* ---------------------------------------------------------- prisma client
\* find_first(where=...) gives no order: of the rows its filter matches any
\* may be the one returned, and None is returned when there is none.  The
\* lookups below are the sets of rows the filter matches.

find_unique(table, id) ==
    IF \E row \in table : row.id = id
    THEN CHOOSE row \in table : row.id = id
    ELSE NoAppointment

\* update / update_many(where=..., data={"isAvailable": flag}) on the rows
\* whose ids the filter matches
update_isAvailable(table, ids, flag) ==
    {IF row.id \in ids THEN [row EXCEPT !.isAvailable = flag] ELSE row :
        row \in table}

\* variant: a cancelled appointment stays as it is
update_appointment_guarded(table, id, status, scheduledTime) ==
    {IF row.id = id /\ row.status # "CANCELLED"
     THEN [row EXCEPT !.status = status,
                      !.scheduledTime =
                          IF scheduledTime = None THEN @ ELSE scheduledTime]
     ELSE row : row \in table}

\* update(where={"id": id}, data={"status": ..., "scheduledTime": ...});
\* a scheduledTime of None is a key left out of data
update_appointment(table, id, status, scheduledTime) ==
    {IF row.id = id
     THEN [row EXCEPT !.status = status,
                      !.scheduledTime =
                          IF scheduledTime = None THEN @ ELSE scheduledTime]
     ELSE row : row \in table}

notification(id, userId, message) ==
    [id |-> id, userId |-> userId, message |-> message]

\* -------------------------------------------------------- handler results
\* A message is the sequence of the pieces an f-string joins.
Response(success, message, appointmentId) ==
    [raised |-> FALSE, error |-> "", success |-> success,
     message |-> message, appointmentId |-> appointmentId,
     updatedAppointment |-> NoAppointment, notification |-> None]

\* The handler does not return: an exception leaves it.
Raise(e) ==
    [raised |-> TRUE, error |-> e, success |-> FALSE,
     message |-> <<>>, appointmentId |-> None,
     updatedAppointment |-> NoAppointment, notification |-> None]

IdleFrame ==
    [op |-> "", userId |-> None, professionalId |-> None, scheduledTime |-> None,
     appointment_id |-> None, status |-> "", isAvailable |-> FALSE,
     availability |-> None, appointment |-> NoAppointment, profile |-> None,
     step |-> "", exception |-> "", pre |-> EmptySnapshot]

\* A call in short: what was asked and what came back.
Summary(f, res) ==
    [op |-> f.op, professionalId |-> f.professionalId,
     scheduledTime |-> f.scheduledTime, appointment_id |-> f.appointment_id,
     raised |-> res.raised, success |-> res.success, message |-> res.message]

NoSummary ==
    [op |-> "", professionalId |-> None, scheduledTime |-> None,
     appointment_id |-> None, raised |-> FALSE, success |-> FALSE,
     message |-> <<>>]

NoCall == [call |-> IdleFrame, res |-> Response(FALSE, <<>>, None), before |-> NoSummary]

\* request r goes on to the statement at `next`
Goto(r, next, f) ==
    /\ pc' = [pc EXCEPT ![r] = next]
    /\ frame' = [frame EXCEPT ![r] = f]
    /\ last' = NoCall
    /\ UNCHANGED recent

\* request r's call ends with res (a response, or an exception): `last` shows
\* the call's arguments and locals, the state it started in, res, and the call
\* that returned before it
Return(r, f, res) ==
    /\ pc' = [pc EXCEPT ![r] = "idle"]
    /\ frame' = [frame EXCEPT ![r] = IdleFrame]
    /\ last' = [call |-> f, res |-> res, before |-> recent]
    /\ recent' = Summary(f, res)

AllIdle == \A r \in Requests : pc[r] = "idle"

\* request r is free to take a call, and is the first that is free; a serial
\* server takes one only when no other is in progress
Start(r, serial) ==
    /\ pc[r] = "idle"
    /\ r = "r1" \/ pc["r1"] # "idle"
    /\ IF serial THEN AllIdle /\ calls < MaxSeqCalls ELSE calls < MaxCalls
    /\ calls' = calls + 1

\* the frame of a call that starts in the current state
Call(op) == [IdleFrame EXCEPT !.op = op, !.pre = Snapshot]

\* ------------------------------------------------------- bookAppointment
NoSlotMessage == <<"No available slots at the requested time.">>
BookedMessage == <<"Appointment booked successfully.">>

\* variant: the lookup leaves the isAvailable filter out
book_where_any_flag(row, professionalId, scheduledTime) ==
    /\ row.professionalId = professionalId
    /\ row.datetime = scheduledTime

\* where={"professionalId": ..., "datetime": ..., "isAvailable": True}
book_where(row, professionalId, scheduledTime) ==
    /\ row.professionalId = professionalId
    /\ row.datetime = scheduledTime
    /\ row.isAvailable = TRUE

\* variant: a missing slot is raised, not returned
book_no_slot_raised == Raise("No available slots at the requested time.")

\* Availability.find_first(where=...)
book_find(table, professionalId, scheduledTime) ==
    {row \in table : book_where(row, professionalId, scheduledTime)}

\* if not availability: return BookingResponse(success=False, ...)
book_no_slot == Response(FALSE, NoSlotMessage, None)

\* the row Appointment.create inserts
book_appointment(id, userId, professionalId, scheduledTime) ==
    [id |-> id, userId |-> userId, professionalId |-> professionalId,
     scheduledTime |-> scheduledTime, status |-> DefaultStatus]

\* variant: the except clause answers with a fixed text
book_create_failed_fixed(e) == Response(FALSE, <<"Booking failed.">>, None)

\* except Exception as e: return BookingResponse(success=False, message=str(e))
book_create_failed(e) == Response(FALSE, <<e>>, None)

\* variant: the update writes the flag it read
book_flip_kept(table, id) == update_isAvailable(table, {id}, TRUE)

\* variant: every row of the pair of the row found is taken
book_flip_pair(table, id) ==
    update_isAvailable(table,
        {row.id : row \in {x \in table : \E found \in table :
                               /\ found.id = id
                               /\ x.professionalId = found.professionalId
                               /\ x.datetime = found.datetime}}, FALSE)

\* Availability.update(where={"id": availability.id}, data={"isAvailable": False})
book_flip(table, id) == update_isAvailable(table, {id}, FALSE)

book_notification(id, professionalId, scheduledTime) ==
    notification(id, professionalId,
                 <<"New appointment booked for ", ToString(scheduledTime)>>)

book_success(appointment) == Response(TRUE, BookedMessage, appointment.id)

\* the call starts: find_first on Availability, and `if not availability`
bookAppointment_find(r, serial, userId, professionalId, scheduledTime) ==
    /\ Start(r, serial)
    /\ UNCHANGED db
    /\ LET f == [Call("bookAppointment") EXCEPT
                    !.userId = userId, !.professionalId = professionalId,
                    !.scheduledTime = scheduledTime, !.step = "find"]
           found == book_find(Availability, professionalId, scheduledTime)
       IN IF found = {}
          THEN Return(r, f, book_no_slot)
          ELSE \E availability \in found :
                  Goto(r, "book_create",
                       [f EXCEPT !.availability = availability.id, !.step = "create"])

bookAppointment_find_raises(r, serial, userId, professionalId, scheduledTime) ==
    /\ Start(r, serial)
    /\ UNCHANGED db
    /\ LET f == [Call("bookAppointment") EXCEPT
                    !.userId = userId, !.professionalId = professionalId,
                    !.scheduledTime = scheduledTime, !.step = "find"]
       IN \E e \in QueryErrors : Return(r, [f EXCEPT !.exception = e], Raise(e))

\* Appointment.create inside the try
bookAppointment_create(r) ==
    /\ pc[r] = "book_create"
    /\ LET f == frame[r]
           new_appointment == book_appointment(nextId.Appointment, f.userId,
                                  f.professionalId, f.scheduledTime)
       IN /\ Appointment' = Appointment \cup {new_appointment}
          /\ nextId' = [nextId EXCEPT !.Appointment = @ + 1]
          /\ Goto(r, "book_flip",
                  [f EXCEPT !.appointment = new_appointment, !.step = "flip"])
    /\ UNCHANGED <<Availability, Notification, people, calls>>

bookAppointment_create_raises(r) ==
    /\ pc[r] = "book_create"
    /\ \E e \in CreateErrors : Return(r, [frame[r] EXCEPT !.exception = e], book_create_failed(e))
    /\ UNCHANGED <<db, calls>>

\* Availability.update by the id of the row found
bookAppointment_flip(r) ==
    /\ pc[r] = "book_flip"
    /\ Availability' = book_flip(Availability, frame[r].availability)
    /\ Goto(r, "book_notify", [frame[r] EXCEPT !.step = "notify"])
    /\ UNCHANGED <<Appointment, Notification, nextId, people, calls>>

\* variant: a failed flip takes the appointment back
bookAppointment_flip_raises_rollback(r) ==
    /\ pc[r] = "book_flip"
    /\ Appointment' = Appointment \ {frame[r].appointment}
    /\ \E e \in QueryErrors : Return(r, [frame[r] EXCEPT !.exception = e], Raise(e))
    /\ UNCHANGED <<Availability, Notification, nextId, people, calls>>

bookAppointment_flip_raises(r) ==
    /\ pc[r] = "book_flip"
    /\ \E e \in QueryErrors : Return(r, [frame[r] EXCEPT !.exception = e], Raise(e))
    /\ UNCHANGED <<db, calls>>

\* Notification.create, then the return
bookAppointment_notify(r) ==
    /\ pc[r] = "book_notify"
    /\ Notification' = Notification \cup
           {book_notification(nextId.Notification, frame[r].professionalId,
                              frame[r].scheduledTime)}
    /\ nextId' = [nextId EXCEPT !.Notification = @ + 1]
    /\ Return(r, [frame[r] EXCEPT !.step = "return"],
              book_success(frame[r].appointment))
    /\ UNCHANGED <<Availability, Appointment, people, calls>>

bookAppointment_notify_raises(r) ==
    /\ pc[r] = "book_notify"
    /\ \E e \in QueryErrors : Return(r, [frame[r] EXCEPT !.exception = e], Raise(e))
    /\ UNCHANGED <<db, calls>>

\* ------------------------------------------------------ cancelAppointment
NotFoundMessage == <<"Appointment not found.">>
AlreadyCancelledMessage == <<"Appointment is already cancelled.">>
CancelledMessage == <<"The appointment has been successfully cancelled.">>

\* variant: a finished appointment cannot be cancelled either
cancel_blocked_when_over(appointment) ==
    appointment.status \in {"CANCELLED", "COMPLETED"}

\* variant: the status is not looked at
cancel_blocked_never(appointment) == FALSE

\* if appointment.status == AppointmentStatus.CANCELLED
cancel_blocked(appointment) == appointment.status = "CANCELLED"

\* variant: the update leaves the status as it was
cancel_update_kept(table, appointment_id) == table

\* variant: a cancelled appointment is removed
cancel_update_deleting(table, appointment_id) ==
    {row \in table : row.id # appointment_id}

\* Appointment.update(where={"id": ...}, data={"status": CANCELLED})
cancel_update(table, appointment_id) ==
    update_appointment(table, appointment_id, "CANCELLED", None)

\* variant: every row of the professional matches, whatever its time
cancel_where_professional(row, appointment) ==
    row.professionalId = appointment.professionalId

\* where={"datetime": ..., "professionalId": ...}
cancel_where(row, appointment) ==
    /\ row.datetime = appointment.scheduledTime
    /\ row.professionalId = appointment.professionalId

\* variant: of the rows the filter matches only the first is released
cancel_release_first(table, appointment) ==
    LET ids == {row.id : row \in {x \in table : cancel_where(x, appointment)}}
    IN update_isAvailable(table, {id \in ids : \A other \in ids : id <= other}, TRUE)

\* Availability.update_many(where=..., data={"isAvailable": True})
cancel_release(table, appointment) ==
    update_isAvailable(table,
        {row.id : row \in {x \in table : cancel_where(x, appointment)}}, TRUE)

\* Notification.create_many(data=[user_notification, professional_notification])
cancel_notifications(id, appointment) ==
    {notification(id, appointment.userId,
                  <<"Your appointment has been cancelled.">>),
     notification(id + 1, appointment.professionalId,
                  <<"An appointment has been cancelled.">>)}

\* the call starts: find_unique on Appointment and the two early returns
cancelAppointment_find(r, serial, appointment_id) ==
    /\ Start(r, serial)
    /\ UNCHANGED db
    /\ LET f == [Call("cancelAppointment") EXCEPT
                    !.appointment_id = appointment_id, !.step = "find"]
           appointment == find_unique(Appointment, appointment_id)
       IN IF appointment.id = None
          THEN Return(r, f, Response(FALSE, NotFoundMessage, None))
          ELSE IF cancel_blocked(appointment)
          THEN Return(r, [f EXCEPT !.appointment = appointment],
                      Response(FALSE, AlreadyCancelledMessage, None))
          ELSE Goto(r, "cancel_update",
                    [f EXCEPT !.appointment = appointment, !.step = "update"])

cancelAppointment_find_raises(r, serial, appointment_id) ==
    /\ Start(r, serial)
    /\ UNCHANGED db
    /\ LET f == [Call("cancelAppointment") EXCEPT
                    !.appointment_id = appointment_id, !.step = "find"]
       IN \E e \in QueryErrors : Return(r, [f EXCEPT !.exception = e], Raise(e))

\* Appointment.update; updated_appointment is the row as it is after the update
cancelAppointment_update(r) ==
    /\ pc[r] = "cancel_update"
    /\ Appointment' = cancel_update(Appointment, frame[r].appointment_id)
    /\ Goto(r, "cancel_release",
            [frame[r] EXCEPT
                !.appointment = find_unique(Appointment', frame[r].appointment_id),
                !.step = "release"])
    /\ UNCHANGED <<Availability, Notification, nextId, people, calls>>

cancelAppointment_update_raises(r) ==
    /\ pc[r] = "cancel_update"
    /\ \E e \in QueryErrors : Return(r, [frame[r] EXCEPT !.exception = e], Raise(e))
    /\ UNCHANGED <<db, calls>>

cancelAppointment_release(r) ==
    /\ pc[r] = "cancel_release"
    /\ Availability' = cancel_release(Availability, frame[r].appointment)
    /\ Goto(r, "cancel_notify", [frame[r] EXCEPT !.step = "notify"])
    /\ UNCHANGED <<Appointment, Notification, nextId, people, calls>>

cancelAppointment_release_raises(r) ==
    /\ pc[r] = "cancel_release"
    /\ \E e \in QueryErrors : Return(r, [frame[r] EXCEPT !.exception = e], Raise(e))
    /\ UNCHANGED <<db, calls>>

cancelAppointment_notify(r) ==
    /\ pc[r] = "cancel_notify"
    /\ Notification' = Notification \cup
           cancel_notifications(nextId.Notification, frame[r].appointment)
    /\ nextId' = [nextId EXCEPT !.Notification = @ + 2]
    /\ Return(r, [frame[r] EXCEPT !.step = "return"],
              Response(TRUE, CancelledMessage, None))
    /\ UNCHANGED <<Availability, Appointment, people, calls>>

cancelAppointment_notify_raises(r) ==
    /\ pc[r] = "cancel_notify"
    /\ \E e \in QueryErrors : Return(r, [frame[r] EXCEPT !.exception = e], Raise(e))
    /\ UNCHANGED <<db, calls>>

\* ------------------------------------------------------ updateAppointment
UpdatedMessage == <<"Appointment updated successfully.">>
ValidationError == "validation error for UpdateAppointmentResponse"

\* UpdateAppointmentResponse(...): updatedAppointment and notification are
\* required fields that do not admit None, so the constructor raises when
\* either is None
UpdateAppointmentResponse(success, message, updatedAppointment, notification_id) ==
    IF updatedAppointment.id = None \/ notification_id = None
    THEN Raise(ValidationError)
    ELSE [Response(success, message, None) EXCEPT
             !.updatedAppointment = updatedAppointment,
             !.notification = notification_id]

\* except Exception as e: return UpdateAppointmentResponse(success=False, ...,
\* updatedAppointment=None, notification=None)
update_failed(e) ==
    UpdateAppointmentResponse(FALSE, <<"Error updating appointment: ", e>>,
                              NoAppointment, None)

\* if not appointment: return UpdateAppointmentResponse(..., None, None); the
\* constructor raises inside the try, so the except clause handles it
update_not_found ==
    LET res == UpdateAppointmentResponse(FALSE, NotFoundMessage, NoAppointment, None)
    IN IF res.raised THEN update_failed(res.error) ELSE res

\* variant: the notification goes to the professional
update_notification_professional(id, appointment, status) ==
    notification(id, appointment.professionalId,
                 <<"Appointment status updated to ", status, ".">>)

update_notification(id, appointment, status) ==
    notification(id, appointment.userId,
                 <<"Appointment status updated to ", status, ".">>)

update_success(updated_appointment, notification_id) ==
    UpdateAppointmentResponse(TRUE, UpdatedMessage, updated_appointment,
                              notification_id)

\* return UpdateAppointmentResponse(success=True, ..., updatedAppointment=
\* updated_appointment, ...): updated_appointment is a prisma.models.Appointment
\* and the field is the local Appointment model.  pydantic 1 builds the field
\* from the row's fields; pydantic 2 rejects the row, the except clause takes
\* the ValidationError and its own constructor call raises.  The sources do
\* not pin the version: both outcomes are possible.
update_returns(updated_appointment, notification_id) ==
    {[exception |-> "", res |-> update_success(updated_appointment, notification_id)],
     [exception |-> ValidationError, res |-> update_failed(ValidationError)]}

updateAppointment_find(r, serial, appointmentId, newScheduledTime, status) ==
    /\ Start(r, serial)
    /\ UNCHANGED db
    /\ LET f == [Call("updateAppointment") EXCEPT
                    !.appointment_id = appointmentId,
                    !.scheduledTime = newScheduledTime,
                    !.status = status, !.step = "find"]
           appointment == find_unique(Appointment, appointmentId)
       IN IF appointment.id = None
          THEN Return(r, f, update_not_found)
          ELSE Goto(r, "update_update",
                    [f EXCEPT !.appointment = appointment, !.step = "update"])

updateAppointment_find_raises(r, serial, appointmentId, newScheduledTime, status) ==
    /\ Start(r, serial)
    /\ UNCHANGED db
    /\ LET f == [Call("updateAppointment") EXCEPT
                    !.appointment_id = appointmentId,
                    !.scheduledTime = newScheduledTime,
                    !.status = status, !.step = "find"]
       IN \E e \in QueryErrors : Return(r, [f EXCEPT !.exception = e], update_failed(e))

\* variant: an update to CANCELLED releases the slot as cancelAppointment does
updateAppointment_update_releasing(r) ==
    /\ pc[r] = "update_update"
    /\ Appointment' = update_appointment(Appointment, frame[r].appointment_id,
                                         frame[r].status, frame[r].scheduledTime)
    /\ Availability' =
           IF frame[r].status = "CANCELLED"
           THEN cancel_release(Availability, frame[r].appointment)
           ELSE Availability
    /\ Goto(r, "update_notify",
            [frame[r] EXCEPT
                !.appointment = find_unique(Appointment', frame[r].appointment_id),
                !.step = "notify"])
    /\ UNCHANGED <<Notification, nextId, people, calls>>

updateAppointment_update(r) ==
    /\ pc[r] = "update_update"
    /\ Appointment' = update_appointment(Appointment, frame[r].appointment_id,
                                         frame[r].status, frame[r].scheduledTime)
    /\ Goto(r, "update_notify",
            [frame[r] EXCEPT
                !.appointment = find_unique(Appointment', frame[r].appointment_id),
                !.step = "notify"])
    /\ UNCHANGED <<Availability, Notification, nextId, people, calls>>

updateAppointment_update_raises(r) ==
    /\ pc[r] = "update_update"
    /\ \E e \in QueryErrors : Return(r, [frame[r] EXCEPT !.exception = e], update_failed(e))
    /\ UNCHANGED <<db, calls>>

updateAppointment_notify(r) ==
    /\ pc[r] = "update_notify"
    /\ Notification' = Notification \cup
           {update_notification(nextId.Notification, frame[r].appointment,
                                frame[r].status)}
    /\ nextId' = [nextId EXCEPT !.Notification = @ + 1]
    /\ \E out \in update_returns(frame[r].appointment, nextId.Notification) :
          Return(r, [frame[r] EXCEPT !.step = "return",
                                     !.exception = out.exception], out.res)
    /\ UNCHANGED <<Availability, Appointment, people, calls>>

\* variant: a failed insert undoes the update
updateAppointment_notify_raises_rollback(r) ==
    /\ pc[r] = "update_notify"
    /\ Appointment' = frame[r].pre.Appointment
    /\ \E e \in QueryErrors : Return(r, [frame[r] EXCEPT !.exception = e], update_failed(e))
    /\ UNCHANGED <<Availability, Notification, nextId, people, calls>>

updateAppointment_notify_raises(r) ==
    /\ pc[r] = "update_notify"
    /\ \E e \in QueryErrors : Return(r, [frame[r] EXCEPT !.exception = e], update_failed(e))
    /\ UNCHANGED <<db, calls>>

\* ----------------------------------------------------- updateAvailability
AvailabilityUpdatedMessage ==
    <<"Availability successfully updated and notification sent.">>

\* where={'professionalId': professionalId, 'datetime': datetime}
availability_where(row, professionalId, datetime) ==
    /\ row.professionalId = professionalId
    /\ row.datetime = datetime

\* variant: the update writes nothing
availability_update_kept(table, id, isAvailable) == table

\* Availability.update_many(where={'id': availability.id}, data=...)
availability_update(table, id, isAvailable) ==
    update_isAvailable(table, {id}, isAvailable)

\* variant: the lookup never finds a row
availability_find_none(table, professionalId, datetime) == {}

\* Availability.find_first(where=...)
availability_find(table, professionalId, datetime) ==
    {row \in table : availability_where(row, professionalId, datetime)}

\* the row Availability.create inserts
availability_row(id, professionalId, datetime, isAvailable) ==
    [id |-> id, professionalId |-> professionalId, datetime |-> datetime,
     isAvailable |-> isAvailable]

availability_notification(id, professionalId, datetime, isAvailable) ==
    notification(id, professionalId,
                 <<"Your availability for ", ToString(datetime), " has been set to ",
                   IF isAvailable THEN "available" ELSE "not available", ".">>)

\* AvailabilityUpdateResponse(professionalId, updatedStatus, message)
AvailabilityUpdateResponse(professionalId, updatedStatus, message) ==
    Response(updatedStatus, message, None)

updateAvailability_find(r, serial, professionalId, datetime, isAvailable) ==
    /\ Start(r, serial)
    /\ UNCHANGED db
    /\ LET f == [Call("updateAvailability") EXCEPT
                    !.professionalId = professionalId,
                    !.scheduledTime = datetime,
                    !.isAvailable = isAvailable, !.step = "write"]
           found == availability_find(Availability, professionalId, datetime)
       IN IF found = {}
          THEN Goto(r, "availability_write", f)
          ELSE \E availability \in found :
                  Goto(r, "availability_write",
                       [f EXCEPT !.availability = availability.id])

updateAvailability_find_raises(r, serial, professionalId, datetime, isAvailable) ==
    /\ Start(r, serial)
    /\ UNCHANGED db
    /\ LET f == [Call("updateAvailability") EXCEPT
                    !.professionalId = professionalId,
                    !.scheduledTime = datetime,
                    !.isAvailable = isAvailable, !.step = "find"]
       IN \E e \in QueryErrors : Return(r, [f EXCEPT !.exception = e], Raise(e))

\* if availability: update_many by id; else: create
updateAvailability_write(r) ==
    /\ pc[r] = "availability_write"
    /\ LET f == frame[r]
       IN IF f.availability # None
          THEN /\ Availability' =
                      availability_update(Availability, f.availability, f.isAvailable)
               /\ UNCHANGED nextId
               /\ Goto(r, "availability_notify", [f EXCEPT !.step = "notify"])
          ELSE /\ Availability' = Availability \cup
                      {availability_row(nextId.Availability, f.professionalId,
                                        f.scheduledTime, f.isAvailable)}
               /\ nextId' = [nextId EXCEPT !.Availability = @ + 1]
               /\ Goto(r, "availability_notify",
                       [f EXCEPT !.availability = nextId.Availability,
                                 !.step = "notify"])
    /\ UNCHANGED <<Appointment, Notification, people, calls>>

updateAvailability_write_raises(r) ==
    /\ pc[r] = "availability_write"
    /\ \E e \in QueryErrors : Return(r, [frame[r] EXCEPT !.exception = e], Raise(e))
    /\ UNCHANGED <<db, calls>>

updateAvailability_notify(r) ==
    /\ pc[r] = "availability_notify"
    /\ Notification' = Notification \cup
           {availability_notification(nextId.Notification, frame[r].professionalId,
                                      frame[r].scheduledTime, frame[r].isAvailable)}
    /\ nextId' = [nextId EXCEPT !.Notification = @ + 1]
    /\ Return(r, [frame[r] EXCEPT !.step = "return"],
              AvailabilityUpdateResponse(frame[r].professionalId,
                  frame[r].isAvailable, AvailabilityUpdatedMessage))
    /\ UNCHANGED <<Availability, Appointment, people, calls>>

updateAvailability_notify_raises(r) ==
    /\ pc[r] = "availability_notify"
    /\ \E e \in QueryErrors : Return(r, [frame[r] EXCEPT !.exception = e], Raise(e))
    /\ UNCHANGED <<db, calls>>

\* ---------------------------------------------- deleteProfessionalProfile
\* the ids callers name: a profile on file, and one that is not
ProfileIds == {2, 4}

ProfileNotFoundMessage == <<"Professional profile not found.">>
ProfileDeletedMessage == <<"Professional profile successfully deleted.">>

\* DeleteProfessionalResponse(confirmation, error); an error of <<>> is None.
\* success and message are what a call's summary keeps of it.
DeleteProfessionalResponse(confirmation, error) ==
    [raised |-> FALSE, error |-> error, confirmation |-> confirmation,
     success |-> error = <<>>, message |-> confirmation]

\* except Exception as e: return DeleteProfessionalResponse(confirmation="",
\* error=f"Failed to delete professional profile: {str(e)}")
delete_profile_failed(e) ==
    DeleteProfessionalResponse(<<>>, <<"Failed to delete professional profile: ", e>>)

\* variant: delete_many with a filter that matches nothing
delete_where_professional_none(table, id) == table

\* delete_many(where={"professionalId": id})
delete_where_professional(table, id) ==
    {row \in table : row.professionalId # id}

delete_profile_notification(id, profileId, professionalId) ==
    notification(id, profileId,
                 <<"Professional Profile with ID ", ToString(professionalId),
                   " has been deleted.">>)

\* the statements of the try block after the lookup, in order
DeleteProfileSteps ==
    {"deleteProfile_availability", "deleteProfile_appointment",
     "deleteProfile_review", "deleteProfile_profile", "deleteProfile_notify"}

\* the call starts: find_unique on ProfessionalProfile, `if profile is None`
deleteProfessionalProfile_find(r, serial, id) ==
    /\ Start(r, serial)
    /\ UNCHANGED db
    /\ LET f == [Call("deleteProfessionalProfile") EXCEPT
                    !.professionalId = id, !.step = "find"]
           found == {profile \in ProfessionalProfile : profile.id = id}
       IN IF found = {}
          THEN Return(r, f, DeleteProfessionalResponse(<<>>, ProfileNotFoundMessage))
          ELSE \E profile \in found :
                  Goto(r, "deleteProfile_availability",
                       [f EXCEPT !.profile = profile.profileId,
                                 !.step = "deleteProfile_availability"])

deleteProfessionalProfile_find_raises(r, serial, id) ==
    /\ Start(r, serial)
    /\ UNCHANGED db
    /\ LET f == [Call("deleteProfessionalProfile") EXCEPT
                    !.professionalId = id, !.step = "find"]
       IN \E e \in QueryErrors :
             Return(r, [f EXCEPT !.exception = e], delete_profile_failed(e))

\* Availability.delete_many
deleteProfessionalProfile_availability(r) ==
    /\ pc[r] = "deleteProfile_availability"
    /\ Availability' = delete_where_professional(Availability, frame[r].professionalId)
    /\ Goto(r, "deleteProfile_appointment",
            [frame[r] EXCEPT !.step = "deleteProfile_appointment"])
    /\ UNCHANGED <<Appointment, Notification, nextId, people, calls>>

\* Appointment.delete_many
deleteProfessionalProfile_appointment(r) ==
    /\ pc[r] = "deleteProfile_appointment"
    /\ Appointment' = delete_where_professional(Appointment, frame[r].professionalId)
    /\ Goto(r, "deleteProfile_review", [frame[r] EXCEPT !.step = "deleteProfile_review"])
    /\ UNCHANGED <<Availability, Notification, nextId, people, calls>>

\* Review.delete_many: the Review table is not part of the state
deleteProfessionalProfile_review(r) ==
    /\ pc[r] = "deleteProfile_review"
    /\ Goto(r, "deleteProfile_profile", [frame[r] EXCEPT !.step = "deleteProfile_profile"])
    /\ UNCHANGED <<db, calls>>

\* ProfessionalProfile.delete(where={"id": id})
deleteProfessionalProfile_profile(r) ==
    /\ pc[r] = "deleteProfile_profile"
    /\ ProfessionalProfile' =
           {profile \in ProfessionalProfile : profile.id # frame[r].professionalId}
    /\ Goto(r, "deleteProfile_notify", [frame[r] EXCEPT !.step = "deleteProfile_notify"])
    /\ UNCHANGED <<Availability, Appointment, Notification, nextId, User,
                   UserProfile, calls>>

\* Notification.create to profile.profileId, then the confirmation
deleteProfessionalProfile_notify(r) ==
    /\ pc[r] = "deleteProfile_notify"
    /\ Notification' = Notification \cup
           {delete_profile_notification(nextId.Notification, frame[r].profile,
                                        frame[r].professionalId)}
    /\ nextId' = [nextId EXCEPT !.Notification = @ + 1]
    /\ Return(r, [frame[r] EXCEPT !.step = "return"],
              DeleteProfessionalResponse(ProfileDeletedMessage, <<>>))
    /\ UNCHANGED <<Availability, Appointment, people, calls>>

\* a statement of the try block raises: the except clause answers
deleteProfessionalProfile_raises(r) ==
    /\ pc[r] \in DeleteProfileSteps
    /\ \E e \in QueryErrors :
          Return(r, [frame[r] EXCEPT !.exception = e], delete_profile_failed(e))
    /\ UNCHANGED <<db, calls>>

\* ------------------------------------------------------------ deleteUser
\* the ids callers name: the client, a professional, and no user
DeleteUserIds == {1, 2, 4}

NoUserMessage == <<"User does not exist.">>
UserDeletedMessage == <<"User and related data deleted successfully.">>

\* DeleteUserResponse(message)
DeleteUserResponse(message) ==
    Response(message = UserDeletedMessage, message, None)

\* user.profile of the row find_unique(where={"id": userId}) returns: the
\* query names no include, so the relation is not loaded and the field is None
user_profile(user) == None

\* delete_many(where={"userId": userId})
delete_where_user(table, userId) == {row \in table : row.userId # userId}

DeleteUserSteps ==
    {"deleteUser_appointments", "deleteUser_notifications", "deleteUser_user"}

\* the call starts: find_unique on User, `if not user`
deleteUser_find(r, serial, userId) ==
    /\ Start(r, serial)
    /\ UNCHANGED db
    /\ LET f == [Call("deleteUser") EXCEPT !.userId = userId, !.step = "find"]
       IN IF \A user \in User : user.id # userId
          THEN Return(r, f, DeleteUserResponse(NoUserMessage))
          ELSE Goto(r, "deleteUser_appointments",
                    [f EXCEPT !.step = "deleteUser_appointments"])

deleteUser_find_raises(r, serial, userId) ==
    /\ Start(r, serial)
    /\ UNCHANGED db
    /\ LET f == [Call("deleteUser") EXCEPT !.userId = userId, !.step = "find"]
       IN \E e \in QueryErrors : Return(r, [f EXCEPT !.exception = e], Raise(e))

\* Appointment.delete_many(where={"userId": userId})
deleteUser_appointments(r) ==
    /\ pc[r] = "deleteUser_appointments"
    /\ Appointment' = delete_where_user(Appointment, frame[r].userId)
    /\ Goto(r, "deleteUser_notifications",
            [frame[r] EXCEPT !.step = "deleteUser_notifications"])
    /\ UNCHANGED <<Availability, Notification, nextId, people, calls>>

\* Notification.delete_many(where={"userId": userId}); `if user.profile` is
\* false for the user as it was loaded, and the statements under it are passed
deleteUser_notifications(r) ==
    /\ pc[r] = "deleteUser_notifications"
    /\ Notification' = delete_where_user(Notification, frame[r].userId)
    /\ Goto(r, IF user_profile(frame[r].userId) # None
               THEN "deleteUser_profile" ELSE "deleteUser_user",
            [frame[r] EXCEPT !.step = "deleteUser_user"])
    /\ UNCHANGED <<Availability, Appointment, nextId, people, calls>>

\* User.delete(where={"id": userId}), then the return
deleteUser_user(r) ==
    /\ pc[r] = "deleteUser_user"
    /\ User' = {user \in User : user.id # frame[r].userId}
    /\ Return(r, [frame[r] EXCEPT !.step = "return"],
              DeleteUserResponse(UserDeletedMessage))
    /\ UNCHANGED <<Availability, Appointment, Notification, nextId, UserProfile,
                   ProfessionalProfile, calls>>

\* a statement after the lookup raises: nothing catches it
deleteUser_raises(r) ==
    /\ pc[r] \in DeleteUserSteps
    /\ \E e \in QueryErrors : Return(r, [frame[r] EXCEPT !.exception = e], Raise(e))
    /\ UNCHANGED <<db, calls>>

\* ------------------------------------------------------ initial states
\* The accounts on file: user 1 is the client of the bookings, users 2 and 3
\* are the professionals; every user has a UserProfile, and the profiles of 2
\* and 3 own the ProfessionalProfiles 2 and 3 the slots belong to.
Accounts ==
    [User |-> {[id |-> u] : u \in {1, 2, 3}},
     UserProfile |-> {[id |-> u, userId |-> u] : u \in {1, 2, 3}},
     ProfessionalProfile |-> {[id |-> p, profileId |-> p] : p \in {2, 3}}]

\* The database a behaviour starts from: empty, or as a run of the handlers
\* leaves it.  SeedSlot is the state after updateAvailability(2, 1, True) on
\* the empty database, SeedBooked the state after bookAppointment(1, 2, 1) on
\* SeedSlot.
SeedEmpty ==
    [Availability |-> {}, Appointment |-> {}, Notification |-> {},
     nextId |-> [Availability |-> 1, Appointment |-> 1, Notification |-> 1]]

SeedSlot ==
    [Availability |-> {availability_row(1, 2, 1, TRUE)},
     Appointment |-> {},
     Notification |-> {availability_notification(1, 2, 1, TRUE)},
     nextId |-> [Availability |-> 2, Appointment |-> 1, Notification |-> 2]]

SeedBooked ==
    [Availability |-> book_flip(SeedSlot.Availability, 1),
     Appointment |-> {book_appointment(1, 1, 2, 1)},
     Notification |-> SeedSlot.Notification \cup {book_notification(2, 2, 1)},
     nextId |-> [Availability |-> 2, Appointment |-> 2, Notification |-> 3]]

Seeds == {SeedEmpty, SeedSlot, SeedBooked}

\* The databases racing calls leave.  SeedDuplicate is the state after two
\* updateAvailability(2, 1, True) calls on the empty database that both looked
\* before either inserted, SeedDuplicateBooked the state after
\* bookAppointment(1, 2, 1) on SeedDuplicate, its find_first answered with the
\* second row.
SeedDuplicate ==
    [Availability |-> {availability_row(1, 2, 1, TRUE),
                       availability_row(2, 2, 1, TRUE)},
     Appointment |-> {},
     Notification |-> {availability_notification(1, 2, 1, TRUE),
                       availability_notification(2, 2, 1, TRUE)},
     nextId |-> [Availability |-> 3, Appointment |-> 1, Notification |-> 3]]

SeedDuplicateBooked ==
    [Availability |-> book_flip(SeedDuplicate.Availability, 2),
     Appointment |-> {book_appointment(1, 1, 2, 1)},
     Notification |-> SeedDuplicate.Notification \cup {book_notification(3, 2, 1)},
     nextId |-> [Availability |-> 3, Appointment |-> 2, Notification |-> 4]]

RaceSeeds == {SeedDuplicate, SeedDuplicateBooked}

\* The databases longer runs leave.  SeedRebooked is the state after
\* updateAvailability(2, 1, True) and bookAppointment(1, 2, 1) on SeedBooked;
\* SeedRescheduled the state after updateAvailability(2, 2, True),
\* bookAppointment(1, 2, 2) and updateAppointment(1, 2, CONFIRMED) on
\* SeedBooked.
SeedRebooked ==
    [Availability |-> SeedBooked.Availability,
     Appointment |-> SeedBooked.Appointment \cup {book_appointment(2, 1, 2, 1)},
     Notification |-> SeedBooked.Notification \cup
         {availability_notification(3, 2, 1, TRUE), book_notification(4, 2, 1)},
     nextId |-> [Availability |-> 2, Appointment |-> 3, Notification |-> 5]]

SeedRescheduled ==
    [Availability |-> SeedBooked.Availability \cup {availability_row(2, 2, 2, FALSE)},
     Appointment |->
         update_appointment(SeedBooked.Appointment, 1, "CONFIRMED", 2)
             \cup {book_appointment(2, 1, 2, 2)},
     Notification |-> SeedBooked.Notification \cup
         {availability_notification(3, 2, 2, TRUE), book_notification(4, 2, 2),
          update_notification(5, book_appointment(1, 1, 2, 1), "CONFIRMED")},
     nextId |-> [Availability |-> 3, Appointment |-> 3, Notification |-> 6]]

LaterSeeds == {SeedRebooked, SeedRescheduled}

Init ==
    /\ \E seed \in Seeds :
          /\ Availability = seed.Availability
          /\ Appointment = seed.Appointment
          /\ Notification = seed.Notification
          /\ nextId = seed.nextId
    /\ User = Accounts.User
    /\ UserProfile = Accounts.UserProfile
    /\ ProfessionalProfile = Accounts.ProfessionalProfile
    /\ pc = [r \in Requests |-> "idle"]
    /\ frame = [r \in Requests |-> IdleFrame]
    /\ last = NoCall
    /\ recent = NoSummary
    /\ calls = 0

\* the server starts on a database that earlier calls, racing or not, left
AfterRaceInit ==
    /\ \E seed \in Seeds \cup RaceSeeds :
          /\ Availability = seed.Availability
          /\ Appointment = seed.Appointment
          /\ Notification = seed.Notification
          /\ nextId = seed.nextId
    /\ User = Accounts.User
    /\ UserProfile = Accounts.UserProfile
    /\ ProfessionalProfile = Accounts.ProfessionalProfile
    /\ pc = [r \in Requests |-> "idle"]
    /\ frame = [r \in Requests |-> IdleFrame]
    /\ last = NoCall
    /\ recent = NoSummary
    /\ calls = 0

\* the server starts on a database that a longer run of calls left
LaterInit ==
    /\ \E seed \in LaterSeeds :
          /\ Availability = seed.Availability
          /\ Appointment = seed.Appointment
          /\ Notification = seed.Notification
          /\ nextId = seed.nextId
    /\ User = Accounts.User
    /\ UserProfile = Accounts.UserProfile
    /\ ProfessionalProfile = Accounts.ProfessionalProfile
    /\ pc = [r \in Requests |-> "idle"]
    /\ frame = [r \in Requests |-> IdleFrame]
    /\ last = NoCall
    /\ recent = NoSummary
    /\ calls = 0

\* ---------------------------------------------------------- the server
\* api_post_bookAppointment, api_delete_cancelAppointment, ...: an exception
\* that leaves the handler is answered with status 500 and {"error": str(e)},
\* a returned response is passed on
api_response(res) ==
    IF res.raised
    THEN [status_code |-> 500, error |-> res.error, body |-> Response(FALSE, <<>>, None)]
    ELSE [status_code |-> 200, error |-> "", body |-> res]

\* ids a caller may name: those handed out so far, and the next one, which
\* no row has
AppointmentIds == 1..nextId.Appointment

\* a request arrives and its handler runs up to its first await's answer
Invoke(r, serial) ==
    \/ \E u \in UserIds, slot \in Slots :
          \/ bookAppointment_find(r, serial, u, slot[1], slot[2])
          \/ bookAppointment_find_raises(r, serial, u, slot[1], slot[2])
    \/ \E id \in AppointmentIds :
          \/ cancelAppointment_find(r, serial, id)
          \/ cancelAppointment_find_raises(r, serial, id)
    \/ \E id \in AppointmentIds, t \in NewScheduledTimes,
          s \in IF serial THEN AppointmentStatus ELSE NewStatuses :
          \/ updateAppointment_find(r, serial, id, t, s)
          \/ updateAppointment_find_raises(r, serial, id, t, s)
    \/ \E slot \in Slots, b \in BOOLEAN :
          \/ updateAvailability_find(r, serial, slot[1], slot[2], b)
          \/ updateAvailability_find_raises(r, serial, slot[1], slot[2], b)

\* a suspended handler gets the answer of the statement it awaits
Resume(r) ==
    \/ bookAppointment_create(r)
    \/ bookAppointment_create_raises(r)
    \/ bookAppointment_flip(r)
    \/ bookAppointment_flip_raises(r)
    \/ bookAppointment_notify(r)
    \/ bookAppointment_notify_raises(r)
    \/ cancelAppointment_update(r)
    \/ cancelAppointment_update_raises(r)
    \/ cancelAppointment_release(r)
    \/ cancelAppointment_release_raises(r)
    \/ cancelAppointment_notify(r)
    \/ cancelAppointment_notify_raises(r)
    \/ updateAppointment_update(r)
    \/ updateAppointment_update_raises(r)
    \/ updateAppointment_notify(r)
    \/ updateAppointment_notify_raises(r)
    \/ updateAvailability_write(r)
    \/ updateAvailability_write_raises(r)
    \/ updateAvailability_notify(r)
    \/ updateAvailability_notify_raises(r)

\* requests interleave at every await
Next == \E r \in Requests : Invoke(r, FALSE) \/ Resume(r)

Spec == Init /\ [][Next]_vars

\* requests arrive one at a time: a call starts when no other is in progress
SeqNext == \E r \in Requests : Invoke(r, TRUE) \/ Resume(r)

SeqSpec == Init /\ [][SeqNext]_vars

\* an administrator's deletions arrive among the other requests
AdminInvoke(r, serial) ==
    \/ \E id \in ProfileIds :
          \/ deleteProfessionalProfile_find(r, serial, id)
          \/ deleteProfessionalProfile_find_raises(r, serial, id)
    \/ \E userId \in DeleteUserIds :
          \/ deleteUser_find(r, serial, userId)
          \/ deleteUser_find_raises(r, serial, userId)

AdminResume(r) ==
    \/ deleteProfessionalProfile_availability(r)
    \/ deleteProfessionalProfile_appointment(r)
    \/ deleteProfessionalProfile_review(r)
    \/ deleteProfessionalProfile_profile(r)
    \/ deleteProfessionalProfile_notify(r)
    \/ deleteProfessionalProfile_raises(r)
    \/ deleteUser_appointments(r)
    \/ deleteUser_notifications(r)
    \/ deleteUser_user(r)
    \/ deleteUser_raises(r)

\* requests arrive one at a time, deletions among them
AdminNext ==
    \E r \in Requests :
        Invoke(r, TRUE) \/ Resume(r) \/ AdminInvoke(r, TRUE) \/ AdminResume(r)

AdminSpec == Init /\ [][AdminNext]_vars

\* requests arrive one at a time, on a database that racing calls may have left
AfterRaceSpec == AfterRaceInit /\ [][SeqNext]_vars

\* calls one at a time, on a database with appointments booked again or moved
LaterSpec == LaterInit /\ [][SeqNext]_vars

\* ---------------------------------------------------------- properties
\* The call that returned in the step just taken, and what it was given.
Returned(op) == last.call.op = op
Args == last.call
Pre == last.call.pre
Res == last.res

\* the statement at `step` raised and ended the call
RaisedAt(step) == Args.exception # "" /\ Args.step = step

\* no statement of the call raised
NoneRaised == Args.exception = ""

Unchanged(table, before) == table = before

\* an Availability row of `table` for the pair that is available
HasAvailable(table, professionalId, datetime) ==
    \E row \in table :
        row.professionalId = professionalId /\ row.datetime = datetime
            /\ row.isAvailable

\* C1: bookAppointment gets past its reservation check iff, when it looks, an
\* Availability row with exactly its professionalId and scheduledTime and
\* isAvailable = true exists; a lookup that finds none ends the call with
\* success = false and the no-available-slots message.
C1_ReservationCheck ==
    /\ \A r \in Requests :
          pc[r] \in {"book_create", "book_flip", "book_notify"} =>
              HasAvailable(frame[r].pre.Availability, frame[r].professionalId,
                           frame[r].scheduledTime)
    /\ Returned("bookAppointment") /\ ~RaisedAt("find") =>
          IF HasAvailable(Pre.Availability, Args.professionalId, Args.scheduledTime)
          THEN Args.step # "find"
          ELSE /\ Args.step = "find"
               /\ Res = Response(FALSE, NoSlotMessage, None)

\* a booking refused although the pair has a row: the row is not available
C1_Witness ==
    /\ Returned("bookAppointment")
    /\ Res = Response(FALSE, NoSlotMessage, None)
    /\ \E row \in Pre.Availability :
          /\ row.professionalId = Args.professionalId
          /\ row.datetime = Args.scheduledTime
          /\ ~row.isAvailable
    /\ \E row \in Pre.Availability :
          row.isAvailable /\ row.professionalId = Args.professionalId

\* C2: after a bookAppointment that returns success = true with no other call
\* running in between, exactly one Appointment row has been added, with the
\* userId, professionalId and scheduledTime given and the appointmentId
\* returned, and the Availability row the check found has isAvailable = false.
C2_SuccessfulBooking ==
    Returned("bookAppointment") /\ ~Res.raised /\ Res.success =>
        /\ \E a \in Appointment :
              /\ a \notin Pre.Appointment
              /\ Appointment = Pre.Appointment \cup {a}
              /\ \A b \in Pre.Appointment : b.id # a.id
              /\ a.id = Res.appointmentId
              /\ a.userId = Args.userId
              /\ a.professionalId = Args.professionalId
              /\ a.scheduledTime = Args.scheduledTime
        /\ \E row \in Pre.Availability :
              /\ row.id = Args.availability
              /\ row.professionalId = Args.professionalId
              /\ row.datetime = Args.scheduledTime
              /\ row.isAvailable
        /\ \A row \in Availability : row.id = Args.availability => ~row.isAvailable

\* a booking that succeeded while another appointment was already on file
C2_Witness ==
    /\ Returned("bookAppointment")
    /\ Res.success
    /\ Pre.Appointment # {}
    /\ Cardinality(Appointment) = Cardinality(Pre.Appointment) + 1

\* C3: a bookAppointment for the pair of the successful bookAppointment that
\* returned just before it, with no call in between, ends with the
\* no-available-slots result and adds no Appointment.
C3_SecondBookingRefused ==
    /\ Returned("bookAppointment") /\ ~RaisedAt("find")
    /\ last.before.op = "bookAppointment" /\ last.before.success
    /\ last.before.professionalId = Args.professionalId
    /\ last.before.scheduledTime = Args.scheduledTime
    => /\ Res = Response(FALSE, NoSlotMessage, None)
       /\ Unchanged(Appointment, Pre.Appointment)

C3_Witness ==
    /\ Returned("bookAppointment")
    /\ last.before.op = "bookAppointment" /\ last.before.success
    /\ last.before.professionalId = Args.professionalId
    /\ last.before.scheduledTime = Args.scheduledTime
    /\ Res = Response(FALSE, NoSlotMessage, None)
    /\ Appointment # {}

\* C4: a bookAppointment whose lookup finds no available row returns a result
\* (success = false, no appointmentId) and raises nothing, and it writes
\* nothing: the Appointment, Availability and Notification tables are as the
\* call found them.
C4_RefusedBookingWritesNothing ==
    /\ Returned("bookAppointment") /\ ~RaisedAt("find")
    /\ ~HasAvailable(Pre.Availability, Args.professionalId, Args.scheduledTime)
    => /\ ~Res.raised
       /\ api_response(Res).status_code = 200
       /\ ~Res.success
       /\ Res.appointmentId = None
       /\ Unchanged(Appointment, Pre.Appointment)
       /\ Unchanged(Availability, Pre.Availability)
       /\ Unchanged(Notification, Pre.Notification)

\* a refused booking on a database that holds rows of all three tables
C4_Witness ==
    /\ Returned("bookAppointment")
    /\ ~Res.raised /\ ~Res.success
    /\ Args.step = "find"
    /\ Appointment # {} /\ Availability # {} /\ Notification # {}

\* C5: when the Appointment insert of bookAppointment raises, the call returns
\* success = false with the text of the exception as its message, the row the
\* check found still has isAvailable = true, and no Notification was created.
C5_FailedInsert ==
    Returned("bookAppointment") /\ RaisedAt("create") =>
        /\ ~Res.raised
        /\ ~Res.success
        /\ Res.message = <<Args.exception>>
        /\ Res.appointmentId = None
        /\ \E row \in Availability : row.id = Args.availability /\ row.isAvailable
        /\ Unchanged(Availability, Pre.Availability)
        /\ Unchanged(Notification, Pre.Notification)
        /\ Unchanged(Appointment, Pre.Appointment)

C5_Witness ==
    /\ Returned("bookAppointment") /\ RaisedAt("create")
    /\ Res.message = <<"foreign key constraint failed">>
    /\ \E row \in Availability : row.id = Args.availability /\ row.isAvailable

\* C6: whichever statement of bookAppointment or cancelAppointment raises
\* (lookup, appointment write, slot flip or release, notification insert), the
\* caller gets a response with success = false and a message, and no
\* exception leaves the handler.
C6_FailuresLocalized ==
    (Returned("bookAppointment") \/ Returned("cancelAppointment")) /\ ~NoneRaised =>
        /\ ~Res.raised
        /\ api_response(Res).status_code = 200
        /\ ~Res.success
        /\ Res.message # <<>>

\* C7: when the Notification insert of bookAppointment or cancelAppointment
\* raises, the booking or cancellation is still reported as successful.
C7_NotificationFailureNotFatal ==
    (Returned("bookAppointment") \/ Returned("cancelAppointment"))
        /\ RaisedAt("notify") =>
            ~Res.raised /\ Res.success

\* the appointment the call's id named when the call looked it up
Looked(id) == {a \in Pre.Appointment : a.id = id}

\* C8: cancelAppointment returns success = true only if an Appointment with
\* the id exists whose status at lookup is not CANCELLED, and, when none of
\* its statements raises, whenever that is so: PENDING, CONFIRMED and
\* COMPLETED do not block it.
C8_CancelGate ==
    Returned("cancelAppointment") =>
        LET open == \E a \in Looked(Args.appointment_id) : a.status # "CANCELLED"
        IN /\ ~Res.raised /\ Res.success => open
           /\ open /\ NoneRaised => ~Res.raised /\ Res.success
           /\ open /\ ~RaisedAt("find") => Args.step # "find"

\* a finished appointment is cancelled
C8_Witness ==
    /\ Returned("cancelAppointment")
    /\ Res.success
    /\ \E a \in Looked(Args.appointment_id) : a.status = "COMPLETED"

\* C9: a cancelAppointment whose id names no Appointment returns
\* success = false with "Appointment not found.", one whose appointment is
\* CANCELLED at lookup returns success = false with the already-cancelled
\* message; either way no table has changed.
C9_RefusedCancelWritesNothing ==
    /\ Returned("cancelAppointment") /\ ~RaisedAt("find")
    /\ \A a \in Looked(Args.appointment_id) : a.status = "CANCELLED"
    => /\ ~Res.raised
       /\ ~Res.success
       /\ Res.message =
              IF Looked(Args.appointment_id) = {}
              THEN NotFoundMessage ELSE AlreadyCancelledMessage
       /\ Unchanged(Appointment, Pre.Appointment)
       /\ Unchanged(Availability, Pre.Availability)
       /\ Unchanged(Notification, Pre.Notification)

\* a cancellation refused because the appointment is cancelled already
C9_Witness ==
    /\ Returned("cancelAppointment")
    /\ Res.message = AlreadyCancelledMessage
    /\ \E a \in Appointment : a.id = Args.appointment_id /\ a.status = "CANCELLED"
    /\ \E row \in Availability : row.isAvailable

\* C10: of two cancelAppointment calls on one appointment that run one after
\* the other with no call in between, the first, on an appointment that is
\* not CANCELLED, returns success = true when none of its statements raises,
\* and the second returns success = false with the already-cancelled message.
C10_CancelTwice ==
    /\ Returned("cancelAppointment") /\ NoneRaised
           /\ (\E a \in Looked(Args.appointment_id) : a.status # "CANCELLED")
       => /\ Res.success
          /\ \E a \in Appointment :
                a.id = Args.appointment_id /\ a.status = "CANCELLED"
    /\ Returned("cancelAppointment") /\ ~RaisedAt("find")
           /\ last.before.op = "cancelAppointment" /\ last.before.success
           /\ last.before.appointment_id = Args.appointment_id
       => /\ ~Res.raised
          /\ ~Res.success
          /\ Res.message = AlreadyCancelledMessage

C10_Witness ==
    /\ Returned("cancelAppointment")
    /\ last.before.op = "cancelAppointment" /\ last.before.success
    /\ last.before.appointment_id = Args.appointment_id
    /\ Res.message = AlreadyCancelledMessage

\* the Availability rows of `table` for the pair of appointment a
Matching(table, a) == {row \in table : cancel_where(row, a)}

\* C11: after a cancelAppointment that returns success = true, with no other
\* call running in between, the appointment's status is CANCELLED, every
\* Availability row for the appointment's (professionalId, scheduledTime),
\* duplicates included, has isAvailable = true, and exactly two Notification
\* rows were added, one to the appointment's userId and one to its
\* professionalId.
C11_SuccessfulCancel ==
    Returned("cancelAppointment") /\ ~Res.raised /\ Res.success =>
        \E a \in Looked(Args.appointment_id) :
            /\ \A b \in Appointment : b.id = a.id => b.status = "CANCELLED"
            /\ \E b \in Appointment : b.id = a.id
            /\ \A row \in Matching(Availability, a) : row.isAvailable
            /\ Pre.Notification \subseteq Notification
            /\ \E n1, n2 \in Notification \ Pre.Notification :
                  /\ n1.id # n2.id
                  /\ Notification \ Pre.Notification = {n1, n2}
                  /\ n1.userId = a.userId
                  /\ n2.userId = a.professionalId

\* a cancellation on a pair with two rows, one of them taken
C11_Witness ==
    /\ Returned("cancelAppointment") /\ Res.success
    /\ \E a \in Looked(Args.appointment_id) :
          /\ Cardinality(Matching(Pre.Availability, a)) = 2
          /\ \E row \in Matching(Pre.Availability, a) : ~row.isAvailable
          /\ Cardinality(Matching(Availability, a)) = 2

\* C12: an updateAppointment whose id names no Appointment returns a
\* response with success = false, no updatedAppointment and no notification,
\* and no table has changed.
C12_NotFoundUpdate ==
    /\ Returned("updateAppointment") /\ ~RaisedAt("find")
    /\ Looked(Args.appointment_id) = {}
    => /\ ~Res.raised
       /\ ~Res.success
       /\ Res.updatedAppointment = NoAppointment
       /\ Res.notification = None
       /\ Unchanged(Appointment, Pre.Appointment)
       /\ Unchanged(Availability, Pre.Availability)
       /\ Unchanged(Notification, Pre.Notification)

\* C13: no exception leaves updateAppointment: when its lookup, its update,
\* its notification insert or the building of its response raises, the call
\* returns success = false with the exception's text in the message.
C13_UpdateNeverRaises ==
    Returned("updateAppointment") =>
        /\ ~Res.raised
        /\ ~NoneRaised =>
               /\ ~Res.success
               /\ Res.message = <<"Error updating appointment: ", Args.exception>>

\* C14: after an updateAppointment that returns success = true, with no other
\* call running in between, the appointment has the status given, whatever
\* its status was (CANCELLED included), its scheduledTime is newScheduledTime
\* if one was given and is as it was if none was, and nothing else of the
\* Appointment table has changed.
C14_StatusAndTime ==
    Returned("updateAppointment") /\ ~Res.raised /\ Res.success =>
        \E a \in Looked(Args.appointment_id) :
            Appointment = (Pre.Appointment \ {a}) \cup
                {[a EXCEPT !.status = Args.status,
                           !.scheduledTime =
                               IF Args.scheduledTime = None
                               THEN a.scheduledTime ELSE Args.scheduledTime]}

\* a cancelled appointment is moved to another time and out of CANCELLED
C14_Witness ==
    /\ Returned("updateAppointment") /\ Res.success
    /\ \E a \in Looked(Args.appointment_id) :
          /\ a.status = "CANCELLED"
          /\ Args.scheduledTime \notin {None, a.scheduledTime}
          /\ \E b \in Appointment :
                b.id = a.id /\ b.status = "PENDING" /\ b.scheduledTime # a.scheduledTime

C16_OneNotification ==
    Returned("updateAppointment") /\ ~Res.raised /\ Res.success =>
        \E a \in Looked(Args.appointment_id) :
            /\ \E n \in Notification \ Pre.Notification :
                  /\ Notification = Pre.Notification \cup {n}
                  /\ n.userId = a.userId
                  /\ Res.notification = n.id
            /\ Res.updatedAppointment \in Appointment
            /\ Res.updatedAppointment.id = a.id
            /\ Res.updatedAppointment.status = Args.status

C16_Witness ==
    /\ Returned("updateAppointment") /\ Res.success
    /\ Pre.Notification # {}
    /\ \E a \in Looked(Args.appointment_id) :
          /\ a.userId # a.professionalId
          /\ \E n \in Notification \ Pre.Notification : n.userId = a.userId
          /\ \A n \in Notification \ Pre.Notification : n.userId # a.professionalId

\* the rows of `table` for a (professionalId, datetime) pair
RowsOf(table, professionalId, datetime) ==
    {row \in table : row.professionalId = professionalId /\ row.datetime = datetime}

\* the Availability rows the call's pair had when the call looked
Seen == RowsOf(Pre.Availability, Args.professionalId, Args.scheduledTime)

\* C17: with no other call running in between, an updateAvailability none of
\* whose statements raises, on a pair with no Availability row, adds exactly
\* one row, with the pair and the flag given; on a pair that has a row it
\* sets that row's flag and adds no row; either way exactly one Notification
\* is added, addressed to professionalId, also when the flag is as it was.
C17_CreateOrUpdate ==
    Returned("updateAvailability") /\ NoneRaised =>
        /\ ~Res.raised
        /\ IF Seen = {}
           THEN \E row \in Availability \ Pre.Availability :
                   /\ Availability = Pre.Availability \cup {row}
                   /\ \A old \in Pre.Availability : old.id # row.id
                   /\ row.professionalId = Args.professionalId
                   /\ row.datetime = Args.scheduledTime
                   /\ row.isAvailable = Args.isAvailable
           ELSE \E old \in Seen :
                   Availability = (Pre.Availability \ {old}) \cup
                       {[old EXCEPT !.isAvailable = Args.isAvailable]}
        /\ \E n \in Notification \ Pre.Notification :
              /\ Notification = Pre.Notification \cup {n}
              /\ n.userId = Args.professionalId

\* a call that sets the flag a row has already
C17_Witness ==
    /\ Returned("updateAvailability") /\ NoneRaised
    /\ \E old \in Seen : old.isAvailable = Args.isAvailable
    /\ Availability = Pre.Availability
    /\ Cardinality(Notification) = Cardinality(Pre.Notification) + 1
    /\ last.before.op = "updateAvailability" /\ Seen \cap SeedSlot.Availability = {}

\* the call that returned before the one that returned now had the same
\* operation and the same pair
SamePairBefore(op) ==
    /\ Returned(op)
    /\ last.before.op = op
    /\ last.before.professionalId = Args.professionalId
    /\ last.before.scheduledTime = Args.scheduledTime

\* C18: with requests interleaving, a bookAppointment can return success
\* right after another bookAppointment for the same pair returned success:
\* its reservation check saw the row available, and both appointments are on
\* file.  It is the order of check and flip that admits the second booking,
\* not the filter of the check.
C18_DoubleBooking ==
    SamePairBefore("bookAppointment") /\ last.before.success
        /\ ~Res.raised /\ Res.success =>
            /\ HasAvailable(Pre.Availability, Args.professionalId, Args.scheduledTime)
            /\ \E a \in Appointment : a.id = Res.appointmentId
            /\ Cardinality(Appointment) >= 2

\* two bookings of the one slot of a pair have both succeeded: the pair has
\* a single row, taken, and two appointments
C18_Witness ==
    /\ SamePairBefore("bookAppointment") /\ last.before.success /\ Res.success
    /\ Cardinality(RowsOf(Pre.Availability, Args.professionalId, Args.scheduledTime)) = 1
    /\ \A row \in RowsOf(Availability, Args.professionalId, Args.scheduledTime) :
          ~row.isAvailable
    /\ Cardinality(RowsOf(Availability, Args.professionalId, Args.scheduledTime)) = 1
    /\ Cardinality({a \in Appointment :
                      /\ a.professionalId = Args.professionalId
                      /\ a.scheduledTime = Args.scheduledTime
                      /\ a.status = "PENDING"}) = 2

\* C19: with requests interleaving, updateAvailability inserts a row only
\* when its own lookup found the pair without one, so two calls for a pair
\* that both looked before either inserted both insert, and the pair has two
\* rows.
C19_DuplicateRows ==
    /\ \A r \in Requests :
          pc[r] = "availability_write" /\ frame[r].availability = None =>
              RowsOf(frame[r].pre.Availability, frame[r].professionalId,
                     frame[r].scheduledTime) = {}
    /\ Returned("updateAvailability") /\ NoneRaised
           /\ (\A old \in Pre.Availability : old.id # Args.availability)
       => Seen = {}

\* the second of two calls for a pair returns: it saw no row, and the pair
\* has two
C19_Witness ==
    /\ SamePairBefore("updateAvailability")
    /\ NoneRaised /\ Seen = {}
    /\ Cardinality(RowsOf(Availability, Args.professionalId, Args.scheduledTime)) = 2

\* C20: with requests run one at a time from a database with at most one
\* Availability row per (professionalId, datetime) pair, every state has at
\* most one Availability row per pair.
C20_OneRowPerPair ==
    \A row, other \in Availability :
        row.professionalId = other.professionalId /\ row.datetime = other.datetime
            => row.id = other.id

\* a second updateAvailability for a pair a call gave its row has returned
C20_Witness ==
    /\ SamePairBefore("updateAvailability")
    /\ NoneRaised /\ ~last.before.raised
    /\ RowsOf(SeedSlot.Availability, Args.professionalId, Args.scheduledTime) = {}
    /\ Cardinality(RowsOf(Availability, Args.professionalId, Args.scheduledTime)) = 1
    /\ Cardinality(Availability) = 2

\* C21: bookAppointment takes nothing back.  When its slot flip raises, the
\* Appointment it created is on file and the row it found still has
\* isAvailable = true; when its Notification insert raises, the Appointment
\* is on file and the row has isAvailable = false.  No other call runs in
\* between.
C21_NoRollback ==
    /\ Returned("bookAppointment") /\ RaisedAt("flip") =>
          /\ Args.appointment \in Appointment \ Pre.Appointment
          /\ \E row \in Availability : row.id = Args.availability /\ row.isAvailable
          /\ Unchanged(Availability, Pre.Availability)
    /\ Returned("bookAppointment") /\ RaisedAt("notify") =>
          /\ Args.appointment \in Appointment \ Pre.Appointment
          /\ \E row \in Availability : row.id = Args.availability /\ ~row.isAvailable
          /\ Unchanged(Notification, Pre.Notification)

\* a booking whose flip failed left an appointment on an open slot
C21_Witness ==
    /\ Returned("bookAppointment") /\ RaisedAt("flip")
    /\ Res.raised
    /\ Cardinality(Appointment) = Cardinality(Pre.Appointment) + 1
    /\ HasAvailable(Availability, Args.professionalId, Args.scheduledTime)

Ids(table) == {row.id : row \in table}

\* C22: in every step of bookAppointment, cancelAppointment, updateAppointment
\* and updateAvailability, interleaved in any way, every Availability id and
\* every Appointment id that exists still exists afterwards, and an
\* Appointment keeps its id, userId and professionalId: only its status and
\* scheduledTime change.
C22_NothingDeleted ==
    [][/\ Ids(Availability) \subseteq Ids(Availability')
       /\ \A a \in Appointment :
             \E b \in Appointment' :
                 /\ b.id = a.id
                 /\ b.userId = a.userId
                 /\ b.professionalId = a.professionalId]_vars

\* an appointment was cancelled while another call was in progress, and is
\* on file with its new status
C22_Witness ==
    /\ Returned("cancelAppointment") /\ Res.success
    /\ ~AllIdle
    /\ \E a \in Pre.Appointment, b \in Appointment :
          a.id = b.id /\ a.status # b.status
    /\ Ids(Pre.Availability) \subseteq Ids(Availability)

\* the rows of `table` that name the professional
OfProfessional(table, id) == {row \in table : row.professionalId = id}

\* C23: with calls run one at a time, after a deleteProfessionalProfile(id)
\* that returns its confirmation and no error, no Availability row and no
\* Appointment row has professionalId = id and no ProfessionalProfile has
\* that id; a call for an id no ProfessionalProfile has returns the error
\* "Professional profile not found." and every table is as it was.
C23_ProfileCascade ==
    /\ Returned("deleteProfessionalProfile") /\ Res.error = <<>> =>
          /\ Res.confirmation = ProfileDeletedMessage
          /\ OfProfessional(Availability, Args.professionalId) = {}
          /\ OfProfessional(Appointment, Args.professionalId) = {}
          /\ \A profile \in ProfessionalProfile : profile.id # Args.professionalId
    /\ Returned("deleteProfessionalProfile") /\ ~RaisedAt("find")
           /\ (\A profile \in Pre.ProfessionalProfile : profile.id # Args.professionalId)
       => /\ Res.error = ProfileNotFoundMessage
          /\ Res.confirmation = <<>>
          /\ Unchanged(Snapshot, Pre)

\* a profile is deleted that had slots and appointments; the slot of another
\* professional is still there
C23_Witness ==
    /\ Returned("deleteProfessionalProfile") /\ Res.error = <<>>
    /\ OfProfessional(Pre.Availability, Args.professionalId) # {}
    /\ OfProfessional(Pre.Appointment, Args.professionalId) # {}
    /\ Availability # {}
    /\ \E profile \in Pre.ProfessionalProfile \ ProfessionalProfile :
          profile.id = Args.professionalId

\* the ProfessionalProfiles the user owns, through the user's UserProfile
ProfessionalsOf(userId) ==
    {professional.id : professional \in
        {x \in Pre.ProfessionalProfile :
            \E profile \in UserProfile :
                profile.userId = userId /\ profile.id = x.profileId}}

\* C24: after a deleteUser(userId) that returns its success message, no
\* Appointment and no Notification has that userId, and no Availability row
\* and no Appointment row names a ProfessionalProfile the user owned.
C24_UserCascade ==
    Returned("deleteUser") /\ ~Res.raised /\ Res.message = UserDeletedMessage =>
        /\ \A row \in Appointment \cup Notification : row.userId # Args.userId
        /\ \A id \in ProfessionalsOf(Args.userId) :
              /\ OfProfessional(Availability, id) = {}
              /\ OfProfessional(Appointment, id) = {}

\* request r takes the step of the statement at `at`
Steps(r, at) == pc[r] = at /\ pc'[r] # at

Open(table, professionalId, scheduledTime) ==
    {a \in table : /\ a.professionalId = professionalId
                    /\ a.scheduledTime = scheduledTime
                    /\ a.status # "CANCELLED"}

\* C27: with no other call running in between, no appointment on file stops
\* a slot from being made available or taken again: an updateAvailability to
\* available none of whose statements raises leaves an available row for the
\* pair, a bookAppointment none of whose statements raises that finds an
\* available row returns success = true and adds an appointment to those the
\* pair has, and a cancelAppointment that returns success = true leaves the
\* rows of the pair available and every other appointment as it was.
C27_AppointmentsNotConsulted ==
    /\ Returned("updateAvailability") /\ NoneRaised /\ Args.isAvailable =>
           /\ HasAvailable(Availability, Args.professionalId, Args.scheduledTime)
           /\ Unchanged(Appointment, Pre.Appointment)
    /\ /\ Returned("bookAppointment") /\ NoneRaised
       /\ HasAvailable(Pre.Availability, Args.professionalId, Args.scheduledTime)
       => /\ Res.success
          /\ Pre.Appointment \subseteq Appointment
          /\ Cardinality(Open(Appointment, Args.professionalId, Args.scheduledTime))
                = 1 + Cardinality(Open(Pre.Appointment, Args.professionalId,
                                       Args.scheduledTime))
    /\ Returned("cancelAppointment") /\ Res.success =>
           \A a \in Looked(Args.appointment_id) :
               /\ \A row \in RowsOf(Availability, a.professionalId, a.scheduledTime) :
                      row.isAvailable
               /\ \A other \in Pre.Appointment :
                      other.id # a.id => other \in Appointment

\* the pair was booked, made available and booked again (the notifications
\* of the three calls are on file), and one of its two appointments is
\* cancelled: the row is available and the other appointment is not cancelled
C27_Witness ==
    /\ Returned("cancelAppointment") /\ Res.success
    /\ \E a \in Looked(Args.appointment_id) :
          /\ Cardinality(Open(Pre.Appointment, a.professionalId, a.scheduledTime)) = 2
          /\ \E n1, n2, n3 \in Pre.Notification :
                /\ n1.id < n2.id /\ n2.id < n3.id
                /\ n1 = book_notification(n1.id, a.professionalId, a.scheduledTime)
                /\ n2 = availability_notification(n2.id, a.professionalId,
                                                  a.scheduledTime, TRUE)
                /\ n3 = book_notification(n3.id, a.professionalId, a.scheduledTime)
          /\ \A row \in RowsOf(Pre.Availability, a.professionalId, a.scheduledTime) :
                ~row.isAvailable
          /\ HasAvailable(Availability, a.professionalId, a.scheduledTime)
          /\ Cardinality(Open(Appointment, a.professionalId, a.scheduledTime)) = 1

\* the Notification rows of `table` that cancellations wrote
Cancellations(table) ==
    {n \in table : \E a \in Appointment : n \in cancel_notifications(n.id, a)
                                           \/ n \in cancel_notifications(n.id - 1, a)}

\* C28: with requests interleaving, a cancelAppointment can return
\* success = true right after another cancelAppointment of the same
\* appointment returned success = true: its lookup read the status before
\* the other wrote CANCELLED, and each of the two calls has added its two
\* Notification rows, four for the one cancellation.
C28_DoubleCancel ==
    /\ Returned("cancelAppointment") /\ Res.success
    /\ last.before.op = "cancelAppointment" /\ last.before.success
    /\ last.before.appointment_id = Args.appointment_id
    => /\ \E a \in Looked(Args.appointment_id) : a.status # "CANCELLED"
       /\ Cardinality(Cancellations(Notification)) >= 4

\* both calls returned success on an appointment that no cancellation had
\* touched, and exactly four Notification rows were added
C28_Witness ==
    /\ Returned("cancelAppointment") /\ Res.success
    /\ last.before.op = "cancelAppointment" /\ last.before.success
    /\ last.before.appointment_id = Args.appointment_id
    /\ Cancellations(Pre.Notification) = {}
    /\ Cardinality(Cancellations(Notification)) = 4
    /\ Cardinality(Notification) = Cardinality(Pre.Notification) + 4
    /\ \E a \in Appointment : a.id = Args.appointment_id /\ a.status = "CANCELLED"

\* C29: with no other call running in between, a bookAppointment that
\* returns success = true has set isAvailable = false on the one row it
\* found, which was available and of its pair, and every other Availability
\* row, other rows of the same pair included, is as it was; while an
\* available row of the pair remains, a following bookAppointment for the
\* pair none of whose statements raises returns success = true.
C29_OneRowFlipped ==
    /\ Returned("bookAppointment") /\ Res.success =>
           /\ \E found \in RowsOf(Pre.Availability, Args.professionalId,
                                   Args.scheduledTime) :
                  found.id = Args.availability /\ found.isAvailable
           /\ Availability =
                  {IF row.id = Args.availability
                       THEN [row EXCEPT !.isAvailable = FALSE] ELSE row :
                   row \in Pre.Availability}
    /\ /\ SamePairBefore("bookAppointment") /\ NoneRaised
       /\ \E row \in Seen : row.isAvailable
       => Res.success

\* two bookings in a row on a pair with two rows, both available at first:
\* each call took one row
C29_Witness ==
    /\ SamePairBefore("bookAppointment") /\ last.before.success /\ Res.success
    /\ Cardinality(Seen) = 2
    /\ Cardinality({row \in Seen : row.isAvailable}) = 1
    /\ \A row \in RowsOf(Availability, Args.professionalId, Args.scheduledTime) :
          ~row.isAvailable
    /\ Cardinality(Open(Appointment, Args.professionalId, Args.scheduledTime)) = 2

\* C30: with no other call running in between, an updateAppointment whose
\* Appointment update executed and whose Notification insert raised is not
\* reported as a success, no Notification was added, and the appointment
\* has the new status, and the new scheduledTime if one was given.
C30_FailedButUpdated ==
    Returned("updateAppointment") /\ RaisedAt("notify") =>
        /\ Res.raised \/ ~Res.success
        /\ Unchanged(Notification, Pre.Notification)
        /\ \E a \in Looked(Args.appointment_id) :
              Appointment = (Pre.Appointment \ {a}) \cup
                  {[a EXCEPT !.status = Args.status,
                             !.scheduledTime =
                                 IF Args.scheduledTime = None
                                 THEN a.scheduledTime ELSE Args.scheduledTime]}

\* the insert failed after an update that changed both the status and the
\* time: the appointment on file differs from the one the call found
C30_Witness ==
    /\ Returned("updateAppointment") /\ RaisedAt("notify")
    /\ \E a \in Looked(Args.appointment_id) :
          /\ a.status # Args.status
          /\ Args.scheduledTime \notin {None, a.scheduledTime}
          /\ a \notin Appointment
          /\ \E b \in Appointment :
                /\ b.id = a.id /\ b.status = Args.status
                /\ b.scheduledTime = Args.scheduledTime
====
